---- MODULE Spec2Model ----
(***************************************************************************)
(* A model of nessusmerger (src/main.go): one run of main, from reading    *)
(* os.Args to the process exit.  The file system is the environment: the   *)
(* content of an input file is revealed when countTotalHosts first parses  *)
(* it, and the outcomes of Walk, MkdirAll, Create and Write are chosen     *)
(* when the call is made.                                                  *)
(*                                                                         *)
(* Go indexes files from 0; the model indexes them from 1, so the code's   *)
(* `i == 0` is IsFirstFile(1).                                             *)
(*                                                                         *)
(* The opaque blobs the code never inspects (Policy, HostProperties and    *)
(* ReportItem contents) are labelled by their position in the input:       *)
(* the Policy of file i is i, the HostProperties of its j-th host <<i,j>>, *)
(* that host's k-th ReportItem <<i,j,k>>.  Host names, the only value the  *)
(* merge compares, are drawn freely from Names.                            *)
(***************************************************************************)
EXTENDS Integers, Sequences, FiniteSets

VARIABLES
    pc,             \* position of main
    outputFile,     \* main: outputFile
    nessusFiles,    \* main: nessusFiles, the paths found (file indices)
    fs,             \* the input files' contents, as far as the run has read them
    ci,             \* countTotalHosts: loop index
    totalCount,     \* countTotalHosts: totalCount
    totalHosts,     \* main: totalHosts
    i,              \* mergeNessusFiles: file loop index
    data,           \* mergeNessusFiles: data, the document being folded
    j,              \* mergeNessusFiles: host loop index within data
    basePolicy,     \* mergeNessusFiles: basePolicy
    hostMap,        \* mergeNessusFiles: hostMap
    processedHosts, uniqueHosts, mergedHosts, totalFindings,
    bar,            \* the progress bar: [max, n]
    mergedData,     \* the bytes mergeNessusFiles returns, by structure
    saveCalled,     \* main reached the call of saveMergedReport
    outDir,         \* the output directory exists
    outFile,        \* what is at the output path
    exitCode,       \* -1 while running, else the process's exit status
    errMsg          \* the error main printed: [kind, file]

vars == <<pc, outputFile, nessusFiles, fs, ci, totalCount, totalHosts, i, data, j,
          basePolicy, hostMap, processedHosts, uniqueHosts, mergedHosts,
          totalFindings, bar, mergedData, saveCalled, outDir, outFile,
          exitCode, errMsg>>

(* ------------------------------ bounds -------------------------------- *)

\* at most this many .nessus files are found
MaxFiles == 2
\* at most this many host entries over all the files
MaxTotalHosts == 3
\* at most this many ReportItems in one host entry
MaxItems == 1

\* the host names of the input
Names == {"10.0.0.1", "10.0.0.2"}

(* ---------------------------- data model ------------------------------ *)

\* type Policy: the inner XML of <Policy>; the zero value has no content
Policy(content) == [Content |-> content]
ZeroPolicy == [Content |-> 0]

\* type ReportHost
ReportHost(name, props, items) ==
    [Name |-> name, HostProperties |-> props, ReportItems |-> items]

\* type NessusClientData, as decoded: Policy and Report.ReportHosts
NessusClientData(policy, hosts) == [Policy |-> policy, ReportHosts |-> hosts]
ZeroData == NessusClientData(ZeroPolicy, <<>>)

\* const xml.Header, put in front of the marshalled document
XmlHeader == "<?xml version=\"1.0\" encoding=\"UTF-8\"?>\n"
\* the name of the merged report
MergedReportName == "Merged Nessus Report"
\* os.Args[2] when given, and the default
DefaultOutputFile == "merged_nessus_report.nessus"
ArgOutputFile == "out/merged.nessus"

\* filepath.Dir of the two output paths
Dir(filename) == IF filename = ArgOutputFile THEN "out" ELSE "."

NoOutput == [Header |-> "", Policy |-> ZeroPolicy, Name |-> "", ReportHosts |-> <<>>]
NoError == [kind |-> "", file |-> 0]

(* --------------------------- the input files -------------------------- *)

\* a file the run has not read yet
Unread == [status |-> "unread", data |-> ZeroData]
\* a file that cannot be opened ("open"), read ("read") or decoded ("decode")
BadFile(why) == [status |-> why, data |-> ZeroData]
BadFiles == {BadFile("open"), BadFile("read"), BadFile("decode")}

\* the document in file f whose hosts are named names[1..] and carry counts[1..] findings
Document(f, names, counts) ==
    NessusClientData(Policy(f),
        [h \in 1..Len(names) |->
            ReportHost(names[h], <<f, h>>, [k \in 1..counts[h] |-> <<f, h, k>>])])

\* the well-formed files of at most room host entries that can be file f
GoodFiles(f, room) ==
    { [status |-> "ok", data |-> Document(f, names, counts)] :
        <<names, counts>> \in UNION { [1..n -> Names] \X [1..n -> 0..MaxItems] : n \in 0..room } }

\* a parser that accepts every file
ParseNeverFails(file) == FALSE
\* parseNessusFile: os.Open, io.ReadAll and xml.Unmarshal each return the error
ParseFails(file) == file.status \in {"open", "read", "decode"}
parseNessusFile(file) ==
    IF ParseFails(file)
    THEN [err |-> TRUE, data |-> ZeroData]
    ELSE [err |-> FALSE, data |-> file.data]

(* ---------------------------- the host map ---------------------------- *)

\* make(map[string]*ReportHost)
EmptyMap == [n \in {} |-> ReportHost("", <<>>, <<>>)]

\* a test that takes every file for the first
EveryFile(f) == TRUE
\* i == 0: the first file of the list
IsFirstFile(f) == f = 1

\* a lookup that never finds the name
NeverExists(hm, name) == FALSE
\* existingHost, exists := hostMap[host.Name]
Exists(hm, name) == name \in DOMAIN hm

\* an append with its arguments swapped
PrependItems(existing, items) == items \o existing
\* an append whose result is dropped
KeepItems(existing, items) == existing
\* append(existingHost.ReportItems, host.ReportItems...)
AppendItems(existing, items) == existing \o items

\* a duplicate branch that stores the later entry with the merged findings
MergeAndReplace(existingHost, host) ==
    [host EXCEPT !.ReportItems = AppendItems(existingHost.ReportItems, host.ReportItems)]
\* the duplicate branch: only ReportItems of the existing entry is assigned
MergeFindings(existingHost, host) ==
    [existingHost EXCEPT !.ReportItems = AppendItems(@, host.ReportItems)]

\* an insertion into a map made anew for each host
InsertAlone(hm, host) == [n \in {host.Name} |-> host]
\* hostCopy := host; hostMap[host.Name] = &hostCopy
InsertHost(hm, host) ==
    [n \in DOMAIN hm \cup {host.Name} |-> IF n = host.Name THEN host ELSE hm[n]]

\* a count of hosts in place of findings
CountHost(total, host) == total + 1
\* totalFindings += len(host.ReportItems)
AddFindings(total, host) == total + Len(host.ReportItems)

\* for _, host := range hostMap: the orders in which a map can be walked
MapOrders(hm) ==
    { s \in [1..Cardinality(DOMAIN hm) -> DOMAIN hm] :
        \A a, b \in DOMAIN s : a # b => s[a] # s[b] }

\* xml.Header + xml.MarshalIndent(&mergedData): the document by structure
Marshal(policy, name, hosts) ==
    [Header |-> XmlHeader, Policy |-> policy, Name |-> name, ReportHosts |-> hosts]

(* ------------------------------- Init --------------------------------- *)

Init ==
    /\ pc = "start"
    /\ outputFile = DefaultOutputFile
    /\ nessusFiles = <<>>
    /\ fs = <<>>
    /\ ci = 1
    /\ totalCount = 0
    /\ totalHosts = 0
    /\ i = 1
    /\ data = ZeroData
    /\ j = 1
    /\ basePolicy = ZeroPolicy
    /\ hostMap = EmptyMap
    /\ processedHosts = 0
    /\ uniqueHosts = 0
    /\ mergedHosts = 0
    /\ totalFindings = 0
    /\ bar = [max |-> 0, n |-> 0]
    /\ mergedData = NoOutput
    /\ saveCalled = FALSE
    /\ outDir = FALSE
    /\ outFile = [state |-> "absent", data |-> NoOutput]
    /\ exitCode = -1
    /\ errMsg = NoError

mergeVars == <<i, data, j, basePolicy, hostMap, processedHosts, uniqueHosts,
               mergedHosts, totalFindings, bar, mergedData>>
countVars == <<ci, totalCount, totalHosts>>
saveVars == <<saveCalled, outDir, outFile>>

\* os.Exit(1) after main printed the error
Exit1(kind, file) ==
    /\ pc' = "exited"
    /\ exitCode' = 1
    /\ errMsg' = [kind |-> kind, file |-> file]

(* ------------------------------- main --------------------------------- *)

\* main, lines 62-74: the usage exit and the choice of outputFile
MainArgs ==
    /\ pc = "start"
    /\ \E argc \in 1..3 :
        IF argc < 2
        THEN /\ Exit1("usage", 0)
             /\ UNCHANGED outputFile
        ELSE /\ outputFile' = IF argc > 2 THEN ArgOutputFile ELSE DefaultOutputFile
             /\ pc' = "find"
             /\ UNCHANGED <<exitCode, errMsg>>
    /\ UNCHANGED <<nessusFiles, fs, countVars, mergeVars, saveVars>>

\* findNessusFiles and main, lines 77-91: the walk fails, or finds n files
FindNessusFiles ==
    /\ pc = "find"
    /\ \E walkErr \in BOOLEAN, n \in 0..MaxFiles :
        IF walkErr
        THEN /\ Exit1("find", 0)
             /\ UNCHANGED <<nessusFiles, fs>>
        ELSE /\ nessusFiles' = [f \in 1..n |-> f]
             /\ fs' = [f \in 1..n |-> Unread]
             /\ IF n = 0
                THEN Exit1("nofiles", 0)
                ELSE /\ pc' = "count"
                     /\ UNCHANGED <<exitCode, errMsg>>
    /\ UNCHANGED <<outputFile, countVars, mergeVars, saveVars>>

\* countTotalHosts, one iteration of its loop, and main's lines 95-100 at its end
CountTotalHosts ==
    /\ pc = "count"
    /\ ci <= Len(nessusFiles)
    /\ \E file \in BadFiles \cup GoodFiles(nessusFiles[ci], MaxTotalHosts - totalCount) :
        /\ fs' = [fs EXCEPT ![ci] = file]
        /\ LET r == parseNessusFile(file) IN
           IF r.err
           THEN /\ Exit1("count", nessusFiles[ci])
                /\ UNCHANGED countVars
           ELSE /\ totalCount' = totalCount + Len(r.data.ReportHosts)
                /\ ci' = ci + 1
                /\ IF ci = Len(nessusFiles)
                   THEN /\ totalHosts' = totalCount'
                        /\ pc' = "merge"
                   ELSE UNCHANGED <<totalHosts, pc>>
                /\ UNCHANGED <<exitCode, errMsg>>
    /\ UNCHANGED <<outputFile, nessusFiles, mergeVars, saveVars>>

(* -------------------------- mergeNessusFiles -------------------------- *)

\* lines 152-178: the empty map, the progress bar and the counters
MergeStart ==
    /\ pc = "merge"
    /\ basePolicy' = ZeroPolicy
    /\ hostMap' = EmptyMap
    /\ bar' = [max |-> totalHosts, n |-> 0]
    /\ processedHosts' = 0
    /\ uniqueHosts' = 0
    /\ mergedHosts' = 0
    /\ totalFindings' = 0
    /\ i' = 1
    /\ pc' = "mergeFile"
    /\ UNCHANGED <<outputFile, nessusFiles, fs, countVars, data, j, mergedData,
                   saveVars, exitCode, errMsg>>

\* lines 180-189: parse file i (it may have gone since it was counted) and keep
\* the first file's Policy
MergeParse ==
    /\ pc = "mergeFile"
    /\ i <= Len(nessusFiles)
    /\ \E gone \in BOOLEAN :
        LET file == IF gone THEN BadFile("open") ELSE fs[i]
            r == parseNessusFile(file)
        IN  /\ fs' = [fs EXCEPT ![i] = file]
            /\ IF r.err
               THEN /\ Exit1("merge", nessusFiles[i])
                    /\ UNCHANGED <<data, j, basePolicy>>
               ELSE /\ data' = r.data
                    /\ basePolicy' = IF IsFirstFile(i) THEN r.data.Policy ELSE basePolicy
                    /\ j' = 1
                    /\ pc' = "mergeHost"
                    /\ UNCHANGED <<exitCode, errMsg>>
    /\ UNCHANGED <<outputFile, nessusFiles, countVars, i, hostMap, processedHosts,
                   uniqueHosts, mergedHosts, totalFindings, bar, mergedData, saveVars>>

\* lines 192-212: one host of data
MergeHost ==
    /\ pc = "mergeHost"
    /\ j <= Len(data.ReportHosts)
    /\ LET host == data.ReportHosts[j] IN
        /\ processedHosts' = processedHosts + 1
        /\ IF ~Exists(hostMap, host.Name)
           THEN /\ hostMap' = InsertHost(hostMap, host)
                /\ uniqueHosts' = uniqueHosts + 1
                /\ totalFindings' = AddFindings(totalFindings, host)
                /\ UNCHANGED mergedHosts
           ELSE /\ hostMap' = [hostMap EXCEPT ![host.Name] = MergeFindings(@, host)]
                /\ mergedHosts' = mergedHosts + 1
                /\ totalFindings' = AddFindings(totalFindings, host)
                /\ UNCHANGED uniqueHosts
    /\ bar' = [bar EXCEPT !.n = @ + 1]
    /\ j' = j + 1
    /\ UNCHANGED <<pc, outputFile, nessusFiles, fs, countVars, i, data, basePolicy,
                   mergedData, saveVars, exitCode, errMsg>>

\* line 192/180: the hosts of data are done, on to the next file
MergeNextFile ==
    /\ pc = "mergeHost"
    /\ j > Len(data.ReportHosts)
    /\ i' = i + 1
    /\ pc' = "mergeFile"
    /\ UNCHANGED <<outputFile, nessusFiles, fs, countVars, data, j, basePolicy, hostMap,
                   processedHosts, uniqueHosts, mergedHosts, totalFindings, bar,
                   mergedData, saveVars, exitCode, errMsg>>

\* lines 215-247: the map becomes a slice in some order, the document is
\* marshalled and returned; main (line 110) goes on to save it
MergeFinish ==
    /\ pc = "mergeFile"
    /\ i > Len(nessusFiles)
    /\ bar' = [bar EXCEPT !.n = bar.max]
    /\ \E order \in MapOrders(hostMap) :
        LET allHosts == [k \in DOMAIN order |-> hostMap[order[k]]]
        IN  mergedData' = Marshal(basePolicy, MergedReportName, allHosts)
    /\ pc' = "save"
    /\ UNCHANGED <<outputFile, nessusFiles, fs, countVars, i, data, j, basePolicy,
                   hostMap, processedHosts, uniqueHosts, mergedHosts, totalFindings,
                   saveVars, exitCode, errMsg>>

(* -------------------------- saveMergedReport -------------------------- *)

\* lines 275-281: MkdirAll of the output directory unless it is "."
SaveMkdirAll ==
    /\ pc = "save"
    /\ saveCalled' = TRUE
    /\ IF Dir(outputFile) # "."
       THEN \E ok \in BOOLEAN :
              IF ok
              THEN /\ outDir' = TRUE
                   /\ pc' = "create"
                   /\ UNCHANGED <<exitCode, errMsg>>
              ELSE /\ Exit1("save", 0)
                   /\ UNCHANGED outDir
       ELSE /\ pc' = "create"
            /\ UNCHANGED <<outDir, exitCode, errMsg>>
    /\ UNCHANGED <<outputFile, nessusFiles, fs, countVars, mergeVars, outFile>>

\* lines 283-287: os.Create makes the file, or empties the one that is there
SaveCreate ==
    /\ pc = "create"
    /\ \E ok \in BOOLEAN :
        IF ok
        THEN /\ outFile' = [state |-> "empty", data |-> NoOutput]
             /\ pc' = "write"
             /\ UNCHANGED <<exitCode, errMsg>>
        ELSE /\ Exit1("save", 0)
             /\ UNCHANGED outFile
    /\ UNCHANGED <<outputFile, nessusFiles, fs, countVars, mergeVars, saveCalled, outDir>>

\* lines 290-295 and main, lines 111-116: the write; a failed write leaves
\* the created file, empty or with part of the bytes
SaveWrite ==
    /\ pc = "write"
    /\ \E ok \in BOOLEAN, some \in BOOLEAN :
        IF ok
        THEN /\ outFile' = [state |-> "written", data |-> mergedData]
             /\ pc' = "exited"
             /\ exitCode' = 0
             /\ UNCHANGED errMsg
        ELSE /\ outFile' = [state |-> IF some THEN "partial" ELSE "empty",
                            data |-> NoOutput]
             /\ Exit1("save", 0)
    /\ UNCHANGED <<outputFile, nessusFiles, fs, countVars, mergeVars, saveCalled, outDir>>

Next ==
    \/ MainArgs
    \/ FindNessusFiles
    \/ CountTotalHosts
    \/ MergeStart
    \/ MergeParse
    \/ MergeHost
    \/ MergeNextFile
    \/ MergeFinish
    \/ SaveMkdirAll
    \/ SaveCreate
    \/ SaveWrite

Spec == Init /\ [][Next]_vars

(* ------------------- what the properties are about -------------------- *)

\* mergeNessusFiles has returned the merged document
MergeComplete == mergedData.Header # ""

\* the merge loop is running or has completed
InMerge == pc \in {"mergeFile", "mergeHost"} \/ MergeComplete

\* the concatenation of the sequences of a sequence
RECURSIVE Flatten(_)
Flatten(ss) == IF ss = <<>> THEN <<>> ELSE Head(ss) \o Flatten(Tail(ss))

\* the host entries of the first n input documents, in processing order
EntriesUpTo(n) == Flatten([f \in 1..n |-> fs[f].data.ReportHosts])
Entries == EntriesUpTo(Len(fs))

\* the entries the merge loop has folded so far
Folded ==
    IF pc = "mergeHost" THEN EntriesUpTo(i - 1) \o SubSeq(data.ReportHosts, 1, j - 1)
    ELSE IF pc = "mergeFile" THEN EntriesUpTo(i - 1)
    ELSE IF MergeComplete THEN Entries
    ELSE <<>>

\* L1 \o ... \o Lk, the finding lists of the entries named name
FindingsOf(name, entries) ==
    Flatten([e \in DOMAIN entries |->
                IF entries[e].Name = name THEN entries[e].ReportItems ELSE <<>>])

\* the entries named name, by index
Occurrences(name, entries) == {e \in DOMAIN entries : entries[e].Name = name}
NamesIn(entries) == {entries[e].Name : e \in DOMAIN entries}

\* how many findings the hosts of a list carry
NumFindings(hosts) == Len(Flatten([h \in DOMAIN hosts |-> hosts[h].ReportItems]))

\* the places <<host, k>> of a host list where finding x stands under name
Places(x, name, hosts) ==
    {p \in (DOMAIN hosts) \X (1..(MaxTotalHosts * MaxItems)) :
        /\ hosts[p[1]].Name = name
        /\ p[2] \in DOMAIN hosts[p[1]].ReportItems
        /\ hosts[p[1]].ReportItems[p[2]] = x}

OutHosts == mergedData.ReportHosts

\* the first entry named name
FirstOccurrence(name, entries) ==
    CHOOSE e \in Occurrences(name, entries) :
        \A d \in Occurrences(name, entries) : e <= d

\* the input files that cannot be opened, read or decoded
Failing == {f \in DOMAIN fs : fs[f].status \in {"open", "read", "decode"}}

(* ------------------------------ properties ---------------------------- *)

\* C1: after a merge, every host name H of the input has an output host H whose
\* finding list is the concatenation L1 \o ... \o Lk of the finding lists of the
\* entries named H, in processing order (file order, then host order).
C1_HostIdentityMerge ==
    MergeComplete =>
        \A name \in NamesIn(Entries) :
            \E h \in DOMAIN OutHosts :
                /\ OutHosts[h].Name = name
                /\ OutHosts[h].ReportItems = FindingsOf(name, Entries)

\* a name that stands in both files, with findings in each
C1_Witness ==
    /\ MergeComplete
    /\ Len(fs) = 2
    /\ \E a \in DOMAIN fs[1].data.ReportHosts, b \in DOMAIN fs[2].data.ReportHosts :
        /\ fs[1].data.ReportHosts[a].Name = fs[2].data.ReportHosts[b].Name
        /\ fs[1].data.ReportHosts[a].ReportItems # <<>>
        /\ fs[2].data.ReportHosts[b].ReportItems # <<>>

\* C2: conservation. After a merge every finding of every input host entry
\* stands at exactly one place of the output, under the host of the same name,
\* and the output holds as many findings as the inputs together.
C2_Conservation ==
    MergeComplete =>
        /\ NumFindings(OutHosts) = NumFindings(Entries)
        /\ \A e \in DOMAIN Entries :
            \A k \in DOMAIN Entries[e].ReportItems :
                /\ Cardinality(Places(Entries[e].ReportItems[k], Entries[e].Name, OutHosts)) = 1
                /\ \A other \in Names \ {Entries[e].Name} :
                    Places(Entries[e].ReportItems[k], other, OutHosts) = {}

\* two output hosts, one of them merged from two entries, all with findings
C2_Witness ==
    /\ MergeComplete
    /\ Len(OutHosts) = 2
    /\ Len(Entries) = 3
    /\ \A e \in DOMAIN Entries : Entries[e].ReportItems # <<>>

\* C3: policy selection. The Policy of the merged document is the Policy of the
\* first document processed, whatever the later documents hold.
C3_PolicySelection ==
    MergeComplete => mergedData.Policy = fs[1].data.Policy

\* a merge of two documents, whose Policies differ
C3_Witness ==
    /\ MergeComplete
    /\ Len(fs) = 2
    /\ fs[1].data.Policy # fs[2].data.Policy

\* C4: fail-fast. When an input file cannot be opened, read or decoded the run
\* has exited with status 1, the error names that file, the first failing one,
\* saveMergedReport was never called and nothing is at the output path.
C4_FailFast ==
    Failing # {} =>
        /\ pc = "exited"
        /\ exitCode = 1
        /\ errMsg.kind \in {"count", "merge"}
        /\ errMsg.file \in {nessusFiles[f] : f \in Failing}
        /\ \A f \in Failing : errMsg.file <= nessusFiles[f]
        /\ ~saveCalled
        /\ outFile.state = "absent"

\* the second file is the one that cannot be decoded
C4_Witness ==
    /\ pc = "exited"
    /\ Len(fs) = 2
    /\ fs[1].status = "ok"
    /\ fs[2].status = "decode"
    /\ errMsg = [kind |-> "count", file |-> 2]

\* C5: a run that ends with an error leaves no file at the output path.
C5_NoOutputOnFailure ==
    (pc = "exited" /\ exitCode # 0) => outFile.state = "absent"

\* C6: after a merge the merged-hosts counter is the number of host names seen
\* more than once, a name seen three times counting once.
C6_MergedCountsNames ==
    MergeComplete =>
        mergedHosts = Cardinality({name \in Names :
                                      Cardinality(Occurrences(name, Entries)) > 1})

\* C7: after a merge the unique-host counter is the number of distinct host
\* names of the input and the output has one host entry for each of them.
C7_UniqueHosts ==
    MergeComplete =>
        /\ uniqueHosts = Cardinality(NamesIn(Entries))
        /\ Len(OutHosts) = Cardinality(NamesIn(Entries))
        /\ NamesIn(OutHosts) = NamesIn(Entries)
        /\ \A a, b \in DOMAIN OutHosts : a # b => OutHosts[a].Name # OutHosts[b].Name

\* a name repeated inside one file and another name in the second file
C7_Witness ==
    /\ MergeComplete
    /\ Len(fs) = 2
    /\ Len(fs[1].data.ReportHosts) = 2
    /\ fs[1].data.ReportHosts[1].Name = fs[1].data.ReportHosts[2].Name
    /\ Cardinality(NamesIn(Entries)) = 2

\* C8: (as claimed) merging a single document gives as many host entries and as
\* many findings as the document has.
C8_SingleInputSameCounts ==
    (MergeComplete /\ Len(fs) = 1) =>
        /\ Len(OutHosts) = Len(fs[1].data.ReportHosts)
        /\ NumFindings(OutHosts) = NumFindings(fs[1].data.ReportHosts)

\* C8: (amended) merging a single document gives one host entry for each distinct
\* host name of the document and as many findings as the document has; when no
\* name is repeated in the document, the output hosts are the document's hosts.
C8_SingleInput ==
    (MergeComplete /\ Len(fs) = 1) =>
        LET hosts == fs[1].data.ReportHosts IN
        /\ Len(OutHosts) = Cardinality(NamesIn(hosts))
        /\ NumFindings(OutHosts) = NumFindings(hosts)
        /\ Cardinality(NamesIn(hosts)) = Len(hosts) =>
            /\ Len(OutHosts) = Len(hosts)
            /\ {OutHosts[h] : h \in DOMAIN OutHosts} = {hosts[h] : h \in DOMAIN hosts}

\* a single document of two hosts with different names, each with findings
C8_Witness ==
    /\ MergeComplete
    /\ Len(fs) = 1
    /\ Len(fs[1].data.ReportHosts) = 2
    /\ fs[1].data.ReportHosts[1].Name # fs[1].data.ReportHosts[2].Name
    /\ \A h \in 1..2 : fs[1].data.ReportHosts[h].ReportItems # <<>>

\* every entry of the map has the HostProperties of the first folded entry of its name
FirstSeenProperties ==
    InMerge => \A name \in DOMAIN hostMap :
        /\ hostMap[name].Name = name
        /\ Occurrences(name, Folded) # {}
        /\ hostMap[name].HostProperties
              = Folded[FirstOccurrence(name, Folded)].HostProperties

\* a step keeps every entry of the map, with its name and HostProperties, and
\* changes at most the entry named as the host being processed, by appending
MapFrame ==
    \A name \in DOMAIN hostMap :
        /\ name \in DOMAIN hostMap'
        /\ hostMap'[name].Name = hostMap[name].Name
        /\ hostMap'[name].HostProperties = hostMap[name].HostProperties
        /\ hostMap'[name] # hostMap[name] =>
            /\ pc = "mergeHost"
            /\ j <= Len(data.ReportHosts)
            /\ name = data.ReportHosts[j].Name
            /\ hostMap'[name].ReportItems
                  = hostMap[name].ReportItems \o data.ReportHosts[j].ReportItems

\* C9: first-seen host metadata is authoritative. Processing a host entry whose
\* name is in the map only appends to that entry's findings and leaves every
\* other entry as it is, so each host of the map, and of the output, carries
\* the HostProperties of the first occurrence of its name.
C9_FirstSeenAuthoritative ==
    /\ []FirstSeenProperties
    /\ [](MergeComplete =>
            \A h \in DOMAIN OutHosts :
                OutHosts[h].HostProperties
                    = Entries[FirstOccurrence(OutHosts[h].Name, Entries)].HostProperties)
    /\ [][MapFrame]_vars

\* a name seen in both files: the output host has the first file's properties
C9_Witness ==
    /\ MergeComplete
    /\ Len(fs) = 2
    /\ \E h \in DOMAIN OutHosts :
        /\ OutHosts[h].HostProperties[1] = 1
        /\ \E b \in DOMAIN fs[2].data.ReportHosts :
              fs[2].data.ReportHosts[b].Name = OutHosts[h].Name

\* the number of findings the map holds
MapFindings ==
    LET order == CHOOSE o \in MapOrders(hostMap) : TRUE
    IN  NumFindings([k \in DOMAIN order |-> hostMap[order[k]]])

\* the counters agree with each other, with the map and with the entries folded
CountersConsistent ==
    /\ uniqueHosts + mergedHosts = processedHosts
    /\ uniqueHosts = Cardinality(DOMAIN hostMap)
    /\ totalFindings = MapFindings
    /\ InMerge => /\ processedHosts = Len(Folded)
                  /\ totalFindings = NumFindings(Folded)

\* C10: in the merge loop uniqueHosts + mergedHosts = processedHosts, uniqueHosts
\* is the size of the map, totalFindings is the number of findings the map
\* holds, and no counter ever decreases.
C10_CounterConsistency ==
    /\ []CountersConsistent
    /\ [][/\ processedHosts' >= processedHosts
          /\ uniqueHosts' >= uniqueHosts
          /\ mergedHosts' >= mergedHosts
          /\ totalFindings' >= totalFindings]_vars

\* in the loop, after a new host and a repeated one, with findings counted
C10_Witness ==
    /\ pc = "mergeHost"
    /\ uniqueHosts >= 1
    /\ mergedHosts >= 1
    /\ totalFindings >= 2

====
